---------------------------- MODULE Spec2Model ----------------------------
(***************************************************************************)
(* The three acquisition functions of AcquisitionFunctions.py:             *)
(*   PIacquisition, EIacquisition, UCBacquisition.                         *)
(*                                                                         *)
(* Floats are modelled as fixed-point integers: the real x is the integer  *)
(* floor(x * SCALE).  Every arithmetic operation returns the floor of the  *)
(* exact result, and the library functions (scipy.stats.norm.cdf / pdf,    *)
(* numpy.log, numpy.sqrt) return the floor of their value at that          *)
(* resolution.  The IEEE special values (nan, +inf, -inf) and the Python   *)
(* exception ZeroDivisionError are separate kinds of value.                *)
(***************************************************************************)
EXTENDS Integers, Sequences, FiniteSets, TLC

\* Fixed-point resolution: 1.0 is SCALE.
SCALE == 10000

\* ------------------------------------------------------------------ bounds
MaxMu == 4
MaxF == 2
MaxEps == 2
MaxStdExp == 2
MaxT == 4
MaxD == 3

Half == SCALE \div 2

\* mu, fMax in steps of 0.5 around 0; epsilon >= 0 in steps of 0.5
MuSet == {k * Half : k \in (0 - MaxMu)..MaxMu}
FMaxSet == {k * Half : k \in (0 - MaxF)..MaxF}
EpsSet == {k * Half : k \in 0..MaxEps}
\* std: 0 (the unguarded case) and 0.5, 1, 2, ...
StdSet == {0} \cup {(2 ^ k) * Half : k \in 0..MaxStdExp}
\* iteration count and dimension: the documented domain and the values below it
TSet == 0..MaxT
DSet == (0 - MaxD - 2)..MaxD
VSet == {Half, SCALE, 2 * SCALE}
DeltaSet == {SCALE \div 10, Half, SCALE, 4 * SCALE}

\* ------------------------------------------------------------ float values
Num(x) == [k |-> "num", v |-> x]
NaN == [k |-> "nan", v |-> 0]
PosInf == [k |-> "inf", v |-> 1]
NegInf == [k |-> "inf", v |-> 0 - 1]
ZeroDivisionError == [k |-> "ZeroDivisionError", v |-> 0]

IsNum(x) == x.k = "num"
IsNaN(x) == x.k = "nan"
IsInf(x) == x.k = "inf"
IsError(x) == x.k = "ZeroDivisionError"

Sign(n) == IF n > 0 THEN 1 ELSE IF n < 0 THEN 0 - 1 ELSE 0

\* floor(a * b / SCALE), computed without leaving 32 bits
Mul(a, b) == (a \div SCALE) * b + ((a % SCALE) * b) \div SCALE
\* the remainder of a * b modulo SCALE
MulRem(a, b) == ((a % SCALE) * b) % SCALE
\* floor(a * SCALE / b) for b > 0
Div(a, b) == (a \div b) * SCALE + ((a % b) * SCALE) \div b

\* x * y on float values (IEEE: nan propagates, 0 * inf = nan)
FMul(x, y) ==
    IF IsNaN(x) \/ IsNaN(y) THEN NaN
    ELSE IF IsInf(x) \/ IsInf(y)
         THEN IF Sign(x.v) * Sign(y.v) > 0 THEN PosInf
              ELSE IF Sign(x.v) * Sign(y.v) < 0 THEN NegInf
              ELSE NaN
    ELSE Num(Mul(x.v, y.v))

\* x + y on float values (IEEE: nan propagates, inf - inf = nan)
FAdd(x, y) ==
    IF IsNaN(x) \/ IsNaN(y) THEN NaN
    ELSE IF IsInf(x) /\ IsInf(y) THEN (IF x.v = y.v THEN x ELSE NaN)
    ELSE IF IsInf(x) THEN x
    ELSE IF IsInf(y) THEN y
    ELSE Num(x.v + y.v)

\* mutant: the sign of a numpy division by zero is lost
FDiv_UnsignedInf(a, b, numpy) ==
    IF b = 0
    THEN IF ~numpy THEN ZeroDivisionError
         ELSE IF a = 0 THEN NaN ELSE PosInf
    ELSE Num(Div(a, b))

\* a / b for finite a and b >= 0.  Division by zero: a Python float raises
\* ZeroDivisionError; a numpy float64 (or array element) gives +-inf or nan.
FDiv(a, b, numpy) ==
    IF b = 0
    THEN IF ~numpy THEN ZeroDivisionError
         ELSE IF a > 0 THEN PosInf
         ELSE IF a < 0 THEN NegInf
         ELSE NaN
    ELSE Num(Div(a, b))

\* ------------------------------------------------- scipy.stats.norm.cdf/pdf
\* The Z values of the model are multiples of 1/8.
ZStep == SCALE \div 8

\* floor(Phi(i/8) * SCALE) for i = -29 .. 29
CdfTable ==
    << 1, 2, 3, 5, 8, 13, 20, 29, 43, 62, 87, 122, 167, 227, 303, 400, 520,
       668, 845, 1056, 1302, 1586, 1907, 2266, 2659, 3085, 3538, 4012, 4502,
       5000,
       5497, 5987, 6461, 6914, 7340, 7733, 8092, 8413, 8697, 8943, 9154, 9331,
       9479, 9599, 9696, 9772, 9832, 9877, 9912, 9937, 9956, 9970, 9979, 9986,
       9991, 9994, 9996, 9997, 9998 >>

\* floor(phi(i/8) * SCALE) for i = 0 .. 32
PdfTable ==
    << 3989, 3958, 3866, 3718, 3520, 3281, 3011, 2720, 2419, 2118, 1826, 1550,
       1295, 1065, 862, 687, 539, 417, 317, 237, 175, 127, 90, 63, 44, 30, 20,
       13, 8, 5, 3, 2, 1 >>

\* scipy.stats.norm.cdf on a finite z: below the table it is under 1/SCALE,
\* above it stays under 1 until the double rounds to 1.0 (z > 8.29)
CdfNum(z) ==
    LET i == z \div ZStep IN
    IF i < 0 - 29 THEN 0
    ELSE IF i <= 29 THEN CdfTable[i + 30]
    ELSE IF i <= 66 THEN SCALE - 1
    ELSE SCALE

PdfNum(z) ==
    LET a == IF z < 0 THEN 0 - z ELSE z
        i == a \div ZStep
    IN IF i <= 32 THEN PdfTable[i + 1] ELSE 0

cdf(x) ==
    IF IsNaN(x) THEN NaN
    ELSE IF IsInf(x) THEN (IF x.v > 0 THEN Num(SCALE) ELSE Num(0))
    ELSE Num(CdfNum(x.v))

pdf(x) ==
    IF IsNaN(x) THEN NaN
    ELSE IF IsInf(x) THEN Num(0)
    ELSE Num(PdfNum(x.v))

\* --------------------------------------------------------- PIacquisition
\* mutant: epsilon added instead of subtracted
PI_EpsilonAdded(muNew, stdNew, fMax, epsilon, numpy) ==
    LET Z == FDiv(muNew - fMax + epsilon, stdNew, numpy)
    IN IF IsError(Z) THEN Z ELSE cdf(Z)

\* mutant: the improvement taken as fMax - muNew
PI_SignFlipped(muNew, stdNew, fMax, epsilon, numpy) ==
    LET Z == FDiv(fMax - muNew + epsilon, stdNew, numpy)
    IN IF IsError(Z) THEN Z ELSE cdf(Z)

\* mutant: Z returned without the cdf
PI_NoCdf(muNew, stdNew, fMax, epsilon, numpy) ==
    FDiv(muNew - fMax - epsilon, stdNew, numpy)

PIacquisition(muNew, stdNew, fMax, epsilon, numpy) ==
    LET Z == FDiv(muNew - fMax - epsilon, stdNew, numpy)
    IN IF IsError(Z) THEN Z ELSE cdf(Z)

\* --------------------------------------------------------- EIacquisition
\* mutant: cdf and pdf exchanged
EI_CdfPdfSwapped(muNew, stdNew, fMax, epsilon, numpy) ==
    LET Z == FDiv(muNew - fMax - epsilon, stdNew, numpy)
    IN IF IsError(Z) THEN Z
       ELSE FAdd(FMul(Num(muNew - fMax - epsilon), pdf(Z)),
                 FMul(Num(stdNew), cdf(Z)))

\* mutant: the density term subtracted
EI_PdfSubtracted(muNew, stdNew, fMax, epsilon, numpy) ==
    LET Z == FDiv(muNew - fMax - epsilon, stdNew, numpy)
    IN IF IsError(Z) THEN Z
       ELSE FAdd(FMul(Num(muNew - fMax - epsilon), cdf(Z)),
                 FMul(Num(0 - stdNew), pdf(Z)))

EIacquisition(muNew, stdNew, fMax, epsilon, numpy) ==
    LET Z == FDiv(muNew - fMax - epsilon, stdNew, numpy)
    IN IF IsError(Z) THEN Z
       ELSE FAdd(FMul(Num(muNew - fMax - epsilon), cdf(Z)),
                 FMul(Num(stdNew), pdf(Z)))


\* --------------------------------------------------- numpy.sqrt, numpy.log
\* k * k <= x * SCALE, for k >= 0
SqLeq(k, x) == Mul(k, k) < x \/ (Mul(k, k) = x /\ MulRem(k, k) = 0)

RECURSIVE SqrtBisect(_, _, _)
\* the largest k in lo..hi with k * k <= x * SCALE (lo is one)
SqrtBisect(lo, hi, x) ==
    IF lo = hi THEN lo
    ELSE LET mid == (lo + hi + 1) \div 2
         IN IF SqLeq(mid, x) THEN SqrtBisect(mid, hi, x)
            ELSE SqrtBisect(lo, mid - 1, x)

\* floor(sqrt(x / SCALE) * SCALE) for x >= 0
SqrtNum(x) == SqrtBisect(0, SCALE + x \div 2, x)

RECURSIVE LnReduce(_, _)
\* <<m, k>> with x = m * 2^k and SCALE <= m < 2 * SCALE, for x > 0
LnReduce(m, k) ==
    IF m >= 2 * SCALE THEN LnReduce(m \div 2, k + 1)
    ELSE IF m < SCALE THEN LnReduce(2 * m, k - 1)
    ELSE <<m, k>>

\* ln(x / SCALE) * SCALE for x > 0: ln x = k ln 2 + 2 atanh((m - 1)/(m + 1))
LnNum(x) ==
    LET r == LnReduce(x, 0)
        m == r[1]
        k == r[2]
        y == Div(m - SCALE, m + SCALE)
        y2 == Mul(y, y)
        y4 == Mul(y2, y2)
        y6 == Mul(y4, y2)
        series == SCALE + y2 \div 3 + y4 \div 5 + y6 \div 7
    IN (k * 693147) \div 100 + Mul(2 * y, series)

\* mutant: a negative argument clamped to zero
sqrt_ZeroBelowZero(x) ==
    IF IsNaN(x) THEN NaN
    ELSE IF IsInf(x) THEN (IF x.v > 0 THEN PosInf ELSE Num(0))
    ELSE IF x.v < 0 THEN Num(0)
    ELSE Num(SqrtNum(x.v))

\* numpy.sqrt: nan (with a RuntimeWarning) below zero
sqrt(x) ==
    IF IsNaN(x) THEN NaN
    ELSE IF IsInf(x) THEN (IF x.v > 0 THEN PosInf ELSE NaN)
    ELSE IF x.v < 0 THEN NaN
    ELSE Num(SqrtNum(x.v))

\* numpy.log: -inf at zero, nan below zero (with a RuntimeWarning)
log(x) ==
    IF IsNaN(x) THEN NaN
    ELSE IF IsInf(x) THEN (IF x.v > 0 THEN PosInf ELSE NaN)
    ELSE IF x.v < 0 THEN NaN
    ELSE IF x.v = 0 THEN NegInf
    ELSE Num(LnNum(x.v))

\* -------------------------------------------------------- UCBacquisition
\* numpy.pi ** 2
PiSquared == 98696

RECURSIVE IntPow(_, _)
IntPow(t, n) == IF n = 0 THEN 1 ELSE t * IntPow(t, n - 1)

\* mutant: d/2 as an integer division (d/2 instead of d/2.)
Pow_IntegerHalf(t, e2) ==
    LET f2 == 2 * (e2 \div 2)
        n == (IF f2 < 0 THEN 0 - f2 ELSE f2)
        whole == IntPow(t, n \div 2) * SCALE
    IN IF f2 >= 0 THEN Num(whole)
       ELSE IF t = 0 THEN ZeroDivisionError
       ELSE Num(Div(SCALE, whole))

\* t ** (e2 / 2) for an int t >= 0 and a float exponent e2 / 2 (Python's **):
\* 0 ** 0.0 is 1.0 and 0 to a negative power raises ZeroDivisionError
Pow(t, e2) ==
    LET n == (IF e2 < 0 THEN 0 - e2 ELSE e2)
        whole == IntPow(t, n \div 2) * SCALE
        p == IF n % 2 = 1 THEN Mul(whole, SqrtNum(t * SCALE)) ELSE whole
    IN IF e2 >= 0 THEN Num(p)
       ELSE IF t = 0 THEN ZeroDivisionError
       ELSE Num(Div(SCALE, p))

\* mutant: pi**2 and 3. * delta exchanged
LogArg_Inverted(t, d, delta) ==
    LET p == Pow(t, d + 4)
    IN IF IsError(p) THEN p
       ELSE Num(Div(Mul(p.v, 3 * delta), PiSquared))

\* the argument of numpy.log: (t**(d/2. + 2))*(numpy.pi**2)/(3. * delta)
LogArg(t, d, delta) ==
    LET p == Pow(t, d + 4)
    IN IF IsError(p) THEN p
       ELSE Num(Div(Mul(p.v, PiSquared), 3 * delta))

Kappa(t, d, v, delta) ==
    LET a == LogArg(t, d, delta)
    IN IF IsError(a) THEN a
       ELSE sqrt(FMul(Num(v), FMul(Num(2 * SCALE), log(a))))

\* mutant: the confidence term subtracted (a lower bound)
UCB_KappaSubtracted(muNew, stdNew, t, d, v, delta) ==
    LET K == Kappa(t, d, v, delta)
    IN IF IsError(K) THEN K
       ELSE FAdd(Num(muNew), FMul(K, Num(0 - stdNew)))

UCBacquisition(muNew, stdNew, t, d, v, delta) ==
    LET K == Kappa(t, d, v, delta)
    IN IF IsError(K) THEN K
       ELSE FAdd(Num(muNew), FMul(K, Num(stdNew)))

\* the defaults of the signature: v=1, delta=.1
DefaultV == SCALE
DefaultDelta == SCALE \div 10

\* ------------------------------------------------------------------ state
VARIABLES fn, args, pc, result

vars == <<fn, args, pc, result>>

None == [k |-> "none", v |-> 0]

PIArgs == [mu : MuSet, std : StdSet, fMax : FMaxSet, epsilon : EpsSet,
           numpy : BOOLEAN]

\* a call of UCBacquisition: with v and delta given, or both left to default
UCBArgs == [mu : MuSet, std : StdSet, t : TSet, d : DSet, v : VSet,
            delta : DeltaSet, defaults : {FALSE}]
           \cup [mu : MuSet, std : StdSet, t : TSet, d : DSet, v : {0},
                 delta : {0}, defaults : {TRUE}]

Init ==
    /\ pc = "call"
    /\ result = None
    /\ \/ fn = "PI" /\ args \in PIArgs
       \/ fn = "EI" /\ args \in PIArgs
       \/ fn = "UCB" /\ args \in UCBArgs

CallPI ==
    /\ pc = "call" /\ fn = "PI"
    /\ result' = PIacquisition(args.mu, args.std, args.fMax, args.epsilon,
                               args.numpy)
    /\ pc' = "done"
    /\ UNCHANGED <<fn, args>>

CallEI ==
    /\ pc = "call" /\ fn = "EI"
    /\ result' = EIacquisition(args.mu, args.std, args.fMax, args.epsilon,
                               args.numpy)
    /\ pc' = "done"
    /\ UNCHANGED <<fn, args>>

CallUCB ==
    /\ pc = "call" /\ fn = "UCB"
    /\ result' = IF args.defaults
                  THEN UCBacquisition(args.mu, args.std, args.t, args.d,
                                      DefaultV, DefaultDelta)
                  ELSE UCBacquisition(args.mu, args.std, args.t, args.d,
                                      args.v, args.delta)
    /\ pc' = "done"
    /\ UNCHANGED <<fn, args>>

Next == CallPI \/ CallEI \/ CallUCB

Spec == Init /\ [][Next]_vars

\* ================================================================ claims
Done(f) == pc = "done" /\ fn = f

\* mu - fMax - epsilon of the call in the state
Improvement == args.mu - args.fMax - args.epsilon

\* every standardized improvement Z the inputs can produce (multiples of 1/8)
ZGrid ==
    LET n == 8 * (MaxMu + MaxF + MaxEps)
    IN {i * ZStep : i \in (0 - n)..n}

\* z is exactly a / b: z * b = a * SCALE
IsQuotient(z, a, b) == Mul(z, b) = a /\ MulRem(z, b) = 0

\* the v and delta a call of UCBacquisition runs with
EffV == IF args.defaults THEN SCALE ELSE args.v
EffDelta == IF args.defaults THEN SCALE \div 10 ELSE args.delta

\* the documented domain of UCBacquisition: t >= 1, d >= 1, v > 0, 0 < delta < 1
UCBDomain == args.t >= 1 /\ args.d >= 1 /\ EffV > 0
             /\ EffDelta > 0 /\ EffDelta < SCALE

\* ---- C1
\* C1: for std > 0, PIacquisition returns Phi(Z) where Z is the quotient
\* (mu - fMax - epsilon) / std; for mu=1, std=1, fMax=0, epsilon=0 that is
\* Phi(1) = 0.8413.
C1_PIReturnsPhiOfZ ==
    (Done("PI") /\ args.std > 0) =>
        /\ \E z \in ZGrid :
              /\ IsQuotient(z, Improvement, args.std)
              /\ result = Num(CdfNum(z))
        /\ (args.mu = SCALE /\ args.std = SCALE /\ args.fMax = 0
            /\ args.epsilon = 0) => result = Num(8413)

C1_Witness ==
    /\ Done("PI") /\ args.std = 2 * SCALE /\ args.epsilon = Half
    /\ args.mu = SCALE /\ args.fMax = 0 - Half
    /\ result = Num(CdfNum(Half))

\* ---- C2
\* C2: for std > 0, EIacquisition returns (mu - fMax - epsilon) * Phi(Z)
\* + std * phi(Z) with the Z of PIacquisition: the Phi factor is the value
\* PIacquisition returns on the same arguments; for mu=1, std=1, fMax=0,
\* epsilon=0 the result is 1.0833 to the last digit of the resolution.
C2_EIFormula ==
    (Done("EI") /\ args.std > 0) =>
        /\ \E z \in ZGrid :
              /\ IsQuotient(z, Improvement, args.std)
              /\ LET PI == PIacquisition(args.mu, args.std, args.fMax,
                                         args.epsilon, args.numpy)
                 IN result = Num(Mul(Improvement, PI.v)
                                 + Mul(args.std, PdfNum(z)))
        /\ (args.mu = SCALE /\ args.std = SCALE /\ args.fMax = 0
            /\ args.epsilon = 0) =>
                (result.v >= 10833 - 1 /\ result.v <= 10833 + 1)

C2_Witness ==
    /\ Done("EI") /\ args.std = Half /\ args.epsilon = Half
    /\ args.mu = SCALE /\ args.fMax = 0
    /\ result = Num(Mul(Half, CdfNum(SCALE)) + Mul(Half, PdfNum(SCALE)))

\* ---- C3
\* t ^ (d/2 + 2) with d/2 a real division: an integer power for even d, and
\* one more factor sqrt(t) for odd d
RealPower(t, d) ==
    IF d % 2 = 0 THEN IntPow(t, d \div 2 + 2) * SCALE
    ELSE IntPow(t, (d - 1) \div 2 + 2) * SqrtNum(t * SCALE)

\* sqrt(v * 2 * ln(t^(d/2 + 2) * pi^2 / (3 * delta)))
KappaFormula(t, d, v, delta) ==
    SqrtNum(Mul(v, 2 * LnNum(Div(Mul(RealPower(t, d), PiSquared), 3 * delta))))

\* C3: on the documented domain UCBacquisition returns mu + kappa * std with
\* kappa = sqrt(v * 2 * ln(t^(d/2 + 2) * pi^2 / (3 * delta))), the division
\* d/2 being real (for t >= 2 the score with d lies strictly above the score
\* with d - 1 when std > 0); a call without v and delta equals the call with
\* v = 1 and delta = 0.1; for mu=0, std=1, t=1, d=1 the result is 2.643.
C3_UCBFormula ==
    (Done("UCB") /\ UCBDomain) =>
        /\ result = Num(args.mu + Mul(KappaFormula(args.t, args.d, EffV,
                                                   EffDelta), args.std))
        /\ (args.t >= 2 /\ args.std > 0) =>
              LET below == UCBacquisition(args.mu, args.std, args.t,
                                          args.d - 1, EffV, EffDelta)
              IN IsNum(below) /\ below.v < result.v
        /\ args.defaults =>
              result = UCBacquisition(args.mu, args.std, args.t, args.d,
                                      SCALE, SCALE \div 10)
        /\ (args.defaults /\ args.mu = 0 /\ args.std = SCALE /\ args.t = 1
            /\ args.d = 1) =>
                (result.v >= 26430 - 5 /\ result.v <= 26430 + 5)

C3_Witness ==
    /\ Done("UCB") /\ UCBDomain /\ args.defaults
    /\ args.t = 2 /\ args.d = 1 /\ args.std = SCALE /\ args.mu = Half
    /\ IsNum(result)
    /\ result.v > UCBacquisition(Half, SCALE, 2, 0, SCALE, SCALE \div 10).v
    /\ result.v < UCBacquisition(Half, SCALE, 2, 2, SCALE, SCALE \div 10).v

\* ---- C4
\* C4: for std > 0, raising mu never lowers the result of PIacquisition, and
\* raising fMax or epsilon never raises it.
C4_PIMonotone ==
    (Done("PI") /\ args.std > 0) =>
        /\ \A m \in MuSet : m >= args.mu =>
              PIacquisition(m, args.std, args.fMax, args.epsilon,
                            args.numpy).v >= result.v
        /\ \A f \in FMaxSet : f >= args.fMax =>
              PIacquisition(args.mu, args.std, f, args.epsilon,
                            args.numpy).v <= result.v
        /\ \A e \in EpsSet : e >= args.epsilon =>
              PIacquisition(args.mu, args.std, args.fMax, e,
                            args.numpy).v <= result.v

\* a call whose result strictly rises with mu and strictly falls with fMax
\* and with epsilon
C4_Witness ==
    /\ Done("PI") /\ args.std = SCALE /\ args.mu = 0 /\ args.fMax = 0
    /\ args.epsilon = 0
    /\ PIacquisition(Half, SCALE, 0, 0, FALSE).v > result.v
    /\ PIacquisition(0, SCALE, Half, 0, FALSE).v < result.v
    /\ PIacquisition(0, SCALE, 0, Half, FALSE).v < result.v

\* ---- C5
\* C5: on the documented domain with std > 0, UCBacquisition is
\* non-decreasing in t: no later iteration t2 >= t scores lower.
C5_UCBMonotoneInT ==
    (Done("UCB") /\ UCBDomain /\ args.std > 0) =>
        \A t2 \in TSet : t2 >= args.t =>
            LET later == UCBacquisition(args.mu, args.std, t2, args.d, EffV,
                                        EffDelta)
            IN IsNum(result) /\ IsNum(later) /\ result.v <= later.v

C5_Witness ==
    /\ Done("UCB") /\ UCBDomain /\ args.std = SCALE /\ args.t = 1
    /\ args.d = 1 /\ ~args.defaults
    /\ result.v < UCBacquisition(args.mu, args.std, 2, args.d, EffV,
                                 EffDelta).v

\* ---- C6
\* C6 as stated: with std = 0, PIacquisition and EIacquisition raise no error;
\* PIacquisition returns 1 or 0 when mu - fMax - epsilon is positive or
\* negative, and both return nan when it is 0.
C6_StdZeroNeverRaises ==
    ((Done("PI") \/ Done("EI")) /\ args.std = 0) =>
        /\ ~IsError(result)
        /\ (fn = "PI" /\ Improvement > 0) => result = Num(SCALE)
        /\ (fn = "PI" /\ Improvement < 0) => result = Num(0)
        /\ Improvement = 0 => IsNaN(result)

\* C6 amended: with std = 0 and numpy operands (float64 or array elements)
\* neither function raises: PIacquisition returns 1 or 0 when
\* mu - fMax - epsilon is positive or negative, and both return nan when it
\* is 0; with plain Python numbers both raise ZeroDivisionError.
C6_StdZeroByOperandType ==
    ((Done("PI") \/ Done("EI")) /\ args.std = 0) =>
        IF args.numpy
        THEN /\ ~IsError(result)
             /\ (fn = "PI" /\ Improvement > 0) => result = Num(SCALE)
             /\ (fn = "PI" /\ Improvement < 0) => result = Num(0)
             /\ Improvement = 0 => IsNaN(result)
        ELSE result = ZeroDivisionError

C6_Witness ==
    /\ Done("PI") /\ args.std = 0 /\ args.numpy /\ Improvement < 0
    /\ result = Num(0)

\* ---- C7
\* C7 as stated: every call of UCBacquisition with delta >= 1, t <= 0 or
\* d <= 0 ends in nan or an error, never in a finite score.
C7_InvalidInputFlagged ==
    (Done("UCB") /\ (EffDelta >= SCALE \/ args.t <= 0 \/ args.d <= 0)) =>
        (IsNaN(result) \/ IsError(result))

\* the log argument t^(d/2 + 2) * pi^2 / (3 * delta) is below 1, decided on
\* its square in whole numbers: t^(d + 4) * pi^4 < 9 * delta^2 (0^0 is 1)
ArgBelowOne(t, d, delta) ==
    LET pi4 == (PiSquared \div 100) * (PiSquared \div 100)
        d2 == 9 * (delta \div 100) * (delta \div 100)
    IN IF d + 4 >= 0
       THEN IntPow(t, d + 4) <= (d2 - 1) \div pi4
       ELSE d2 > pi4 \div IntPow(t, 0 - (d + 4))

\* C7 amended: a call of UCBacquisition with t >= 0, v > 0, delta > 0 ends in
\* ZeroDivisionError exactly when t = 0 and d/2 + 2 < 0, and otherwise in nan
\* exactly when the log argument t^(d/2 + 2) * pi^2 / (3 * delta) is below 1
\* (as it is for t = 0 with d/2 + 2 > 0, and for t = 1 with delta = 4); every
\* other call, also one with delta >= 1 or d <= 0, returns a finite score.
C7_NaNOnlyBelowOne ==
    Done("UCB") =>
        /\ IsError(result) <=> (args.t = 0 /\ args.d + 4 < 0)
        /\ IsNaN(result) <=>
              /\ ~(args.t = 0 /\ args.d + 4 < 0)
              /\ ArgBelowOne(args.t, args.d, EffDelta)
        /\ IsNum(result) <=>
              /\ ~(args.t = 0 /\ args.d + 4 < 0)
              /\ ~ArgBelowOne(args.t, args.d, EffDelta)

\* a call with delta = 4 that ends in nan
C7_Witness ==
    /\ Done("UCB") /\ ~args.defaults /\ args.delta = 4 * SCALE /\ args.t = 1
    /\ args.d = 1 /\ IsNaN(result)

\* ---- C8
\* C8: for std > 0 the result of PIacquisition is a number in [0, 1].
C8_PIInUnitInterval ==
    (Done("PI") /\ args.std > 0) =>
        (IsNum(result) /\ 0 <= result.v /\ result.v <= SCALE)

\* the ends of the interval are reached
C8_Witness ==
    /\ Done("PI") /\ args.std = Half /\ Improvement = 0 - 2 * SCALE
    /\ result = Num(0)

\* ---- C9
\* C9: for std > 0 the result of EIacquisition is non-negative, and when
\* mu <= fMax and epsilon = 0 it is at most std * phi(0).
C9_EINonNegative ==
    (Done("EI") /\ args.std > 0) =>
        /\ IsNum(result) /\ result.v >= 0
        /\ (args.mu <= args.fMax /\ args.epsilon = 0) =>
              result.v <= Mul(args.std, PdfNum(0))

\* a negative improvement outweighed by the density term
C9_Witness ==
    /\ Done("EI") /\ args.std = SCALE /\ args.epsilon = 0
    /\ args.mu = 0 - SCALE /\ args.fMax = 0
    /\ result.v > 0 /\ result.v < Mul(args.std, PdfNum(0))

\* ---- C10
\* C10: on the documented domain the log argument is a number above 1, its
\* logarithm is positive, v * 2 * ln(...) is non-negative, kappa is a
\* non-negative number and the call returns a number.
C10_DomainIsSafe ==
    (Done("UCB") /\ UCBDomain) =>
        LET a == LogArg(args.t, args.d, EffDelta)
            K == Kappa(args.t, args.d, EffV, EffDelta)
        IN /\ IsNum(a) /\ a.v > SCALE
           /\ IsNum(log(a)) /\ log(a).v > 0
           /\ Mul(EffV, 2 * log(a).v) >= 0
           /\ IsNum(K) /\ K.v >= 0
           /\ IsNum(result)

\* the smallest log argument of the domain in the model: t = 1, delta = 0.5
C10_Witness ==
    /\ Done("UCB") /\ UCBDomain /\ args.t = 1 /\ ~args.defaults
    /\ args.delta = Half /\ args.std = SCALE
    /\ IsNum(result) /\ result.v > args.mu

=============================================================================
